---- MODULE Spec2Model ----
(***************************************************************************)
(* Model of the remote log download path of cmd/logs.go: the byte-chunk   *)
(* decoder parseLogPart, the io.ReadSeeker LogReader (Read, Seek) and the *)
(* NodeRequest hand-off to the dispatcher that talks to the node.         *)
(*                                                                         *)
(* Bytes and strings are sequences of one-character strings, so that the  *)
(* decoder works on the text of a response as the code does.  uint64 and  *)
(* int64 are scaled to OffsetBits bits and keep their wrap-around.        *)
(***************************************************************************)
EXTENDS Integers, Sequences, FiniteSets, TLC

\* ------------------------------------------------------------------ bounds

\* Width, in bits, of the model's uint64/int64 (the code's is 64).
OffsetBits == 3
\* Largest buffer length len(p) handed to Read.
MaxBuf == 2
\* Number of Read calls (hence NodeRequest objects) of one session.
MaxReads == 2
\* Capacity of requestChannel, a buffered channel made by the caller of
\* transmitLogFile.
ChanCap == 1
\* The dispatcher's retries are followed one by one within RetryWindow of the
\* ceiling of parseLogPart; its retries before that window are one step.
RetryWindow == 1
\* Largest file size handed to transmitLogFile.
MaxSize == 2
\* Largest number of lines after the first in a list or snippet text.
MaxLines == 2
\* Largest number of bytes the node puts in one chunk.
MaxChunk == 2

\* ------------------------------------------------------- machine integers

Mod == 2 ^ OffsetBits

\* uint64(x): conversion of an integer to the unsigned type (wraps).
ToUint64(x) == x % Mod

\* int64(x): conversion to the signed type (two's complement).
ToInt64(x) == IF (x % Mod) >= Mod \div 2 THEN (x % Mod) - Mod ELSE x % Mod

Int64Range == (0 - (Mod \div 2)) .. ((Mod \div 2) - 1)

Min(a, b) == IF a <= b THEN a ELSE b

\* -------------------------------------------------------------- text

NL == "\n"

Digits == <<"0", "1", "2", "3", "4", "5", "6", "7", "8", "9">>

IsDigit(c) == \E i \in 1..10 : Digits[i] = c

DigitVal(c) == (CHOOSE i \in 1..10 : Digits[i] = c) - 1

\* fmt's %d of a non-negative integer.
RECURSIVE Itoa(_)
Itoa(n) == IF n < 10 THEN <<Digits[n + 1]>>
           ELSE Itoa(n \div 10) \o <<Digits[(n % 10) + 1]>>

\* A faulty IndexByte: the index of the last c in s.
LastIndexByte(s, c) ==
    IF \E i \in 1..Len(s) : s[i] = c
    THEN (CHOOSE i \in 1..Len(s) : s[i] = c /\ \A j \in (i + 1)..Len(s) : s[j] # c) - 1
    ELSE 0 - 1

\* bytes.IndexByte: the 0-based index of the first c in s, or -1.
IndexByte(s, c) ==
    IF \E i \in 1..Len(s) : s[i] = c
    THEN (CHOOSE i \in 1..Len(s) : s[i] = c /\ \A j \in 1..(i - 1) : s[j] # c) - 1
    ELSE 0 - 1

\* s[lo:hi] of Go (0-based, hi exclusive).
Slice(s, lo, hi) == SubSeq(s, lo + 1, hi)

HasPrefix(s, p) == Len(s) >= Len(p) /\ SubSeq(s, 1, Len(p)) = p

\* Length of the longest run of digits of s starting at 1-based position i.
RECURSIVE DigitRun(_, _)
DigitRun(s, i) == IF i <= Len(s) /\ IsDigit(s[i]) THEN 1 + DigitRun(s, i + 1) ELSE 0

\* Value of a sequence of decimal digits.
RECURSIVE DecValue(_)
DecValue(d) == IF Len(d) = 0 THEN 0
               ELSE 10 * DecValue(SubSeq(d, 1, Len(d) - 1)) + DigitVal(d[Len(d)])

\* strconv.ParseUint(d, 10, 64): a syntax error when d is empty or holds a
\* byte that is not a digit, an out-of-range error when the value does not
\* fit the unsigned type, the value otherwise.
ParseUint(d) == IF d = <<>> \/ \E i \in 1..Len(d) : ~IsDigit(d[i])
                THEN [ok |-> FALSE, val |-> 0]
                ELSE IF DecValue(d) >= Mod
                THEN [ok |-> FALSE, val |-> Mod - 1]
                ELSE [ok |-> TRUE, val |-> DecValue(d)]

\* The 0-based index of the first occurrence of sep in s, or -1.
Index(s, sep) ==
    IF \E i \in 1..(Len(s) - Len(sep) + 1) : SubSeq(s, i, i + Len(sep) - 1) = sep
    THEN (CHOOSE i \in 1..(Len(s) - Len(sep) + 1) :
              /\ SubSeq(s, i, i + Len(sep) - 1) = sep
              /\ \A j \in 1..(i - 1) : SubSeq(s, j, j + Len(sep) - 1) # sep) - 1
    ELSE 0 - 1

\* strings.Split(s, sep) for a separator that is not empty: the pieces of s
\* between the occurrences of sep, from left to right (one piece, s itself,
\* when sep does not occur).
RECURSIVE Split(_, _)
Split(s, sep) ==
    IF Index(s, sep) = 0 - 1 THEN <<s>>
    ELSE <<Slice(s, 0, Index(s, sep))>>
             \o Split(Slice(s, Index(s, sep) + Len(sep), Len(s)), sep)

\* The elements of strs with sep between them.
RECURSIVE Join(_, _)
Join(strs, sep) ==
    IF strs = <<>> THEN <<>>
    ELSE IF Len(strs) = 1 THEN strs[1]
    ELSE strs[1] \o sep \o Join(Tail(strs), sep)

\* fmt's %v of a []string: the elements between brackets, a space apart.
FormatStrings(strs) == <<"[">> \o Join(strs, <<" ">>) \o <<"]">>

\* The success marker of a list or snippet response.
successLine == <<"S", "U", "C", "C", "E", "S", "S">>

FieldSep == <<" ", "|", " ">>

SuccessColon == <<"S", "U", "C", "C", "E", "S", "S", ":", " ">>

\* The element of a one-element set.  {e} evaluates e once, so a value bound
\* to The({e}) is computed once, as a local variable of the code is.
The(S) == CHOOSE x \in S : TRUE

\* logReadFirstLine.FindSubmatch(line): the three groups of
\* ^SUCCESS: ([0-9]+)-([0-9]+)/([0-9]+)$, or no match.  p1, p2 and p3 are the
\* positions right after the first, second and third run of digits.
FindSubmatch(line) ==
    LET p0 == Len(SuccessColon) + 1
        Groups(p1, p2, p3) ==
            IF /\ HasPrefix(line, SuccessColon)
               /\ p1 - p0 >= 1
               /\ p1 <= Len(line) /\ line[p1] = "-"
               /\ p2 - (p1 + 1) >= 1
               /\ p2 <= Len(line) /\ line[p2] = "/"
               /\ p3 - (p2 + 1) >= 1
               /\ p3 = Len(line) + 1
            THEN [ok |-> TRUE,
                  m1 |-> SubSeq(line, p0, p1 - 1),
                  m2 |-> SubSeq(line, p1 + 1, p2 - 1),
                  m3 |-> SubSeq(line, p2 + 1, p3 - 1)]
            ELSE [ok |-> FALSE, m1 |-> <<>>, m2 |-> <<>>, m3 |-> <<>>]
        After2(p1, p2) ==
            The({Groups(p1, p2, p3) : p3 \in {p2 + 1 + DigitRun(line, p2 + 1)}})
        After1(p1) ==
            The({After2(p1, p2) : p2 \in {p1 + 1 + DigitRun(line, p1 + 1)}})
    IN The({After1(p1) : p1 \in {p0 + DigitRun(line, p0)}})

\* ---------------------------------------------------------- NodeRequest

\* The retry ceiling of parseLogPart.
RetryCeiling == 16

\* &NodeRequest{url: ...}: the fields Read and parseLogPart use.  url holds
\* the offset printed into "/logs/read?file=%s&offset=%d\n".
NewNodeRequest(off) ==
    [url |-> off, served |-> FALSE, response |-> <<>>, err |-> <<>>, retries |-> 0]

\* A result of parseLogPart: (clear, to, total, part, errStr).
ParseResult(clear, to, total, part, err) ==
    [clear |-> clear, to |-> to, total |-> total, part |-> part, err |-> err]

\* A faulty Clear: the ceiling is reached one attempt early.
ClearEarly(nodeRequest) == nodeRequest.retries >= RetryCeiling - 1

\* clear := nodeRequest.retries >= 16
Clear(nodeRequest) == nodeRequest.retries >= RetryCeiling

\* A faulty FromDiffers: the reported from is not compared.
FromIgnored(from, offset) == FALSE

\* if from != offset
FromDiffers(from, offset) == from # offset

\* A faulty SuccessClear: a well-formed chunk is gated by the ceiling too.
SuccessClearGated(nodeRequest) == Clear(nodeRequest)

\* return true, ...: a well-formed chunk ends the polling whatever retries is.
SuccessClear(nodeRequest) == TRUE

\* A faulty Served: a request with an error text counts as served.
ServedOrFailed(nodeRequest) == nodeRequest.served \/ nodeRequest.err # <<>>

\* if !nodeRequest.served
Served(nodeRequest) == nodeRequest.served

ErrNoFirstLine == <<"could not find first line in log part response">>

ErrFirstLine(line) == <<"first line needs to have format SUCCESS: from-to/total, was [">> \o line

ErrParsing(what) == <<"parsing ", what>>

ErrUnexpectedFrom(from, offset) ==
    <<"Unexpected from ">> \o Itoa(from) \o <<", wanted ">> \o Itoa(offset)

\* parseLogPart, run under nodeRequest.lock: one atomic read of the request.
\* Numbers, FirstLine and Response are the function's body from the point
\* where m, line and firstLineEnd have their values.
parseLogPart(nodeRequest, offset) ==
    LET clear == Clear(nodeRequest)
        Numbers(m, part) ==
            The({IF ~from.ok THEN ParseResult(clear, 0, 0, <<>>, ErrParsing("from"))
                 ELSE IF FromDiffers(from.val, offset)
                      THEN ParseResult(clear, 0, 0, <<>>,
                                       ErrUnexpectedFrom(from.val, offset))
                 ELSE IF ~to.ok THEN ParseResult(clear, 0, 0, <<>>, ErrParsing("to"))
                 ELSE IF ~total.ok
                      THEN ParseResult(clear, 0, 0, <<>>, ErrParsing("total"))
                 ELSE ParseResult(SuccessClear(nodeRequest), to.val, total.val, part, <<>>)
                 : from \in {ParseUint(m.m1)},
                   to \in {ParseUint(m.m2)},
                   total \in {ParseUint(m.m3)}})
        FirstLine(line, part) ==
            The({IF ~m.ok THEN ParseResult(clear, 0, 0, <<>>, ErrFirstLine(line))
                 ELSE Numbers(m, part)
                 : m \in {FindSubmatch(line)}})
        Response(firstLineEnd) ==
            IF firstLineEnd = 0 - 1 THEN ParseResult(clear, 0, 0, <<>>, ErrNoFirstLine)
            ELSE The({FirstLine(line, part)
                      : line \in {Slice(nodeRequest.response, 0, firstLineEnd)},
                        part \in {Slice(nodeRequest.response, firstLineEnd + 1,
                                        Len(nodeRequest.response))}})
    IN IF ~Served(nodeRequest) THEN ParseResult(FALSE, 0, 0, <<>>, <<>>)
       ELSE IF nodeRequest.err # <<>> THEN ParseResult(clear, 0, 0, <<>>, nodeRequest.err)
       ELSE The({Response(firstLineEnd)
                 : firstLineEnd \in {IndexByte(nodeRequest.response, NL)}})

\* ------------------------------------------------- list and snippet

\* const unit = 1024
unit == 1024

\* The loop of MBToGB on n = b / unit: the number of further divisions.
RECURSIVE MBToGBExp(_)
MBToGBExp(n) == IF n >= unit THEN 1 + MBToGBExp(n \div unit) ELSE 0

\* MBToGB(b): the quotient num / div (float64(b) / float64(div); the rounding
\* of uint64 to float64 above 2^53 is left out) and exp.
MBToGB(b) ==
    IF b < unit THEN [num |-> b, div |-> 1, exp |-> 0]
    ELSE [num |-> b, div |-> unit ^ (MBToGBExp(b \div unit) + 1),
          exp |-> MBToGBExp(b \div unit)]

\* The number of tenths fmt's %.1f prints for num / div (ties to even).
Tenths(num, div) ==
    LET q == (10 * num) \div div
        r == (10 * num) % div
    IN IF 2 * r > div \/ (2 * r = div /\ q % 2 = 1) THEN q + 1 ELSE q

\* ByteCount(b): "%dB" below unit, "%.1f%cB" with the letter of "KMGTPE"
\* otherwise.
ByteCount(b) ==
    IF b < unit THEN Itoa(b) \o <<"B">>
    ELSE LET v == MBToGB(b)
             t == Tenths(v.num, v.div)
         IN Itoa(t \div 10) \o <<".">> \o Itoa(t % 10)
                \o <<<<"K", "M", "G", "T", "P", "E">>[v.exp + 1], "B">>

\* LogListItem{Filename, Size, PrintedSize}
LogListItem(filename, size) ==
    [Filename |-> filename, Size |-> ToInt64(size), PrintedSize |-> ByteCount(size)]

\* var ll = LogList{SessionName: sessionName}: the fields processResponse
\* writes.
NewLogList == [Success |-> FALSE, Error |-> <<>>, List |-> <<>>]

ErrListLength(lines) ==
    <<"incorrect response (length of lines should be at least 2): ">>
        \o FormatStrings(lines)

ErrListFirstLine(lines) ==
    <<"incorrect response (first line needs to be SUCCESS): ">> \o FormatStrings(lines)

ErrListTerms(l) ==
    <<"incorrect response line (need to have 2 terms divided by |): ">> \o l

ErrListSize(term) == <<"incorrect size: ">> \o term

\* for _, l := range lines[1:] { ... }; ll.Success = true: the loop of
\* LogList.processResponse over the lines not yet seen, and what follows it.
RECURSIVE ListEntries(_, _)
ListEntries(ll, lines) ==
    IF lines = <<>> THEN [ll EXCEPT !.Success = TRUE]
    ELSE IF Len(Head(lines)) = 0 THEN ListEntries(ll, Tail(lines))
    ELSE IF Len(Split(Head(lines), FieldSep)) # 2
         THEN [ll EXCEPT !.Error = ErrListTerms(Head(lines))]
    ELSE IF ~ParseUint(Split(Head(lines), FieldSep)[2]).ok
         THEN [ll EXCEPT !.Error = ErrListSize(Split(Head(lines), FieldSep)[2])]
    ELSE ListEntries(
             [ll EXCEPT !.List = Append(@,
                  LogListItem(Split(Head(lines), FieldSep)[1],
                              ParseUint(Split(Head(lines), FieldSep)[2]).val))],
             Tail(lines))

\* (ll *LogList) processResponse(result, success): ll after the call.
LogListProcessResponse(ll, result, success) ==
    LET lines == Split(result, <<NL>>)
    IN IF ~success THEN [ll EXCEPT !.Error = result]
       ELSE IF Len(lines) < 2 THEN [ll EXCEPT !.Error = ErrListLength(lines)]
       ELSE IF ~HasPrefix(lines[1], successLine)
            THEN [ll EXCEPT !.Error = ErrListFirstLine(lines)]
       ELSE ListEntries(ll, Tail(lines))

\* var lp LogPart
NewLogPart == [Success |-> FALSE, Error |-> <<>>, Lines |-> <<>>]

\* A faulty SnippetLines: the marker line is kept.
SnippetLinesAll(lines) == lines

\* if len(lines) >= 1 && strings.HasPrefix(lines[0], successLine)
\*     { lines = lines[1:] }
SnippetLines(lines) ==
    IF Len(lines) >= 1 /\ HasPrefix(lines[1], successLine) THEN Tail(lines) ELSE lines

\* (lp *LogPart) processResponse(result, success): lp after the call.
LogPartProcessResponse(lp, result, success) ==
    IF ~success THEN [lp EXCEPT !.Success = FALSE, !.Error = result]
    ELSE [lp EXCEPT !.Success = TRUE, !.Lines = SnippetLines(Split(result, <<NL>>))]

\* ------------------------------------------------------------ LogReader

SeekStart == 0
SeekCurrent == 1
SeekEnd == 2

\* A faulty SeekOffset: io.SeekEnd never uses lr.total.
SeekOffsetEndZero(lr, offset, whence) ==
    IF whence = SeekStart THEN ToUint64(offset)
    ELSE IF whence = SeekCurrent THEN ToUint64(ToInt64(ToInt64(lr.offset) + offset))
    ELSE IF whence = SeekEnd THEN 0
    ELSE lr.offset

\* The offset LogReader.Seek leaves in lr.offset.
SeekOffset(lr, offset, whence) ==
    IF whence = SeekStart THEN ToUint64(offset)
    ELSE IF whence = SeekCurrent THEN ToUint64(ToInt64(ToInt64(lr.offset) + offset))
    ELSE IF whence = SeekEnd
         THEN IF lr.total > 0 THEN ToUint64(ToInt64(ToInt64(lr.total) + offset)) ELSE 0
    ELSE lr.offset

\* return int64(lr.offset), nil
SeekReturn(newOffset) == ToInt64(newOffset)

\* A faulty Copied: the whole part is counted, whatever len(p).
CopiedAll(L, part) == Len(part)

\* copy(p, part) with len(p) = L: the number of bytes copied.
Copied(L, part) == Min(L, Len(part))

\* A faulty AdvanceOffset: the offset moves one byte too far.
AdvancePastEnd(offset, copied) == ToUint64(offset + copied + 1)

\* lr.offset += uint64(copied)
AdvanceOffset(offset, copied) == ToUint64(offset + copied)

\* A faulty CopiedBytes: the last bytes of part are taken.
CopiedTail(part, copied) == SubSeq(part, Len(part) - copied + 1, Len(part))

\* copy(p, part): the bytes that arrive in p.
CopiedBytes(part, copied) == SubSeq(part, 1, copied)

\* The tail of Read after the poll loop: (n, err) and the stream it leaves.
\* kind is "error" for fmt.Errorf(errStr), "EOF" for io.EOF, "nil" for nil.
ReadFinish(lr, L, total, part, errStr) ==
    LET copied == Copied(L, part)
        newOffset == AdvanceOffset(lr.offset, copied)
    IN IF errStr # <<>>
       THEN [lr |-> lr, n |-> 0, kind |-> "error", msg |-> errStr, data |-> <<>>]
       ELSE [lr |-> [offset |-> newOffset, total |-> total],
             n |-> copied,
             kind |-> IF newOffset = total THEN "EOF" ELSE "nil",
             msg |-> <<>>,
             data |-> CopiedBytes(part, copied)]

\* ---------------------------------------------------------------- state

VARIABLES
    lr,              \* the LogReader: [offset, total]
    ctxDone,         \* lr.ctx.Done() is closed
    requestChannel,  \* the NodeRequests (by index) buffered in the channel
    requests,        \* every NodeRequest created so far; the fields of one
                     \* that no Read polls any more are not tracked
    rd,              \* the frame of the Read in progress
    disp,            \* the dispatcher: the request it works on
    ret,             \* what the last Read or Seek returned
    hist,            \* history: cur is the offset of the request of the last
                     \* Read called (-1: none, or a Seek ran since); prev is,
                     \* until that request is sent, the offset of the request
                     \* of the Read called before it (-1: none, or a Seek ran
                     \* between the two); noSeek: no Seek has run so far;
                     \* delivered: while noSeek, the bytes the Reads have
                     \* copied to their callers, one after the other
    w                \* the handler that serves the operator's request, its
                     \* arguments and what it hands to the ResponseWriter
                     \* (the struct for the template, or the text written; the size
                     \* given to transmitLogFile is in lr only);
                     \* reader: the LogReader has been made

vars == <<lr, ctxDone, requestChannel, requests, rd, disp, ret, hist, w>>

\* No Read in progress.  (afterErr is history: the poll loop has ended and
\* the iteration before its last one decoded an error.)
IdleFrame ==
    [pc |-> "idle", nodeRequest |-> 0, clear |-> FALSE,
     total |-> 0, part |-> <<>>, errStr |-> <<>>, afterErr |-> FALSE]

\* A return of Read or Seek, with the arguments of the call: len(p) for Read,
\* (offset, whence) for Seek.
Return(op, L, offset, whence, n, kind, msg, data) ==
    [op |-> op, L |-> L, offset |-> offset, whence |-> whence,
     n |-> n, kind |-> kind, msg |-> msg, data |-> data]

NoReturn == Return("none", 0, 0, 0, 0, "nil", <<>>, <<>>)

ErrInterrupted == <<"interrupted">>

\* The operator's request has reached no handler yet; lr stands for a
\* LogReader that is not made yet.
NoHandler == [handler |-> "none", args |-> <<>>, out |-> <<>>, reader |-> FALSE]

Init ==
    /\ lr = [offset |-> 0, total |-> 0]
    /\ ctxDone = FALSE
    /\ requestChannel = <<>>
    /\ requests = <<>>
    /\ rd = IdleFrame
    /\ disp = [cur |-> 0, first |-> TRUE]
    /\ ret = NoReturn
    /\ hist = [prev |-> 0 - 1, cur |-> 0 - 1, noSeek |-> TRUE, delivered |-> <<>>]
    /\ w = NoHandler

\* --------------------------------------------------------- handlers

\* The sequences of at most n elements of S.
SeqsUpTo(S, n) == UNION {[1..k -> S] : k \in 0..n}

\* The first lines of the texts handed to the list and snippet handlers: the
\* marker, the marker followed by more text, other text, nothing.
FirstLines == {successLine, successLine \o <<"!">>, <<"E">>, <<>>}

\* The lines that follow in a list text: blank, <filename> | <size> with a
\* small size, the largest size of the unsigned type and one that does not
\* fit it, and lines with one field, three fields, a size that is no number
\* and an empty size.
ListLines ==
    {<<>>,
     <<"f">> \o FieldSep \o Itoa(1),
     <<"g">> \o FieldSep \o Itoa(Mod - 1),
     <<"f">> \o FieldSep \o Itoa(Mod),
     <<"f">>,
     <<"f">> \o FieldSep \o Itoa(1) \o FieldSep \o Itoa(2),
     <<"f">> \o FieldSep \o <<"x">>,
     <<"f">> \o FieldSep}

\* The lines that follow in a snippet text.
SnippetTexts == {<<>>, <<"x">>, successLine}

ListResults ==
    {Join(<<first>> \o body, <<NL>>) :
         first \in FirstLines, body \in SeqsUpTo(ListLines, MaxLines)}

SnippetResults ==
    {Join(<<first>> \o body, <<NL>>) :
         first \in FirstLines, body \in SeqsUpTo(SnippetTexts, MaxLines)}

\* The arguments with which a handler may be called: those of S as long as
\* no handler has been called, none afterwards.
Pending(S) == IF w.handler = "none" THEN S ELSE {}

\* processLogList: ll.processResponse(result, success), then ll goes to the
\* template.
processLogList(success, result) ==
    /\ w.handler = "none"
    /\ w' = [handler |-> "list",
             args |-> [success |-> success, result |-> result],
             out |-> LogListProcessResponse(NewLogList, result, success),
             reader |-> FALSE]
    /\ UNCHANGED <<lr, ctxDone, requestChannel, requests, rd, disp, ret, hist>>

\* processLogPart: lp.processResponse(result, success), then lp goes to the
\* template.
processLogPart(success, result) ==
    /\ w.handler = "none"
    /\ w' = [handler |-> "part",
             args |-> [success |-> success, result |-> result],
             out |-> LogPartProcessResponse(NewLogPart, result, success),
             reader |-> FALSE]
    /\ UNCHANGED <<lr, ctxDone, requestChannel, requests, rd, disp, ret, hist>>

ErrNotAllocated == <<"ERROR: Node is not allocated", NL>>

\* A faulty NotAllocated: the channel is not looked at.
NotAllocatedNever(channel) == FALSE

\* if requestChannel == nil
NotAllocated(channel) == channel = "nil"

\* transmitLogFile(..., size, requestChannel): the error text when there is
\* no channel; otherwise &LogReader{..., offset: 0, total: size, ctx: ctx},
\* which http.ServeContent then reads and seeks.
transmitLogFile(size, channel) ==
    /\ w.handler = "none"
    /\ IF NotAllocated(channel)
       THEN /\ w' = [handler |-> "file",
                     args |-> [requestChannel |-> channel],
                     out |-> ErrNotAllocated, reader |-> FALSE]
            /\ UNCHANGED lr
       ELSE /\ w' = [handler |-> "file",
                     args |-> [requestChannel |-> channel],
                     out |-> <<>>, reader |-> TRUE]
            /\ lr' = [offset |-> 0, total |-> size]
    /\ UNCHANGED <<ctxDone, requestChannel, requests, rd, disp, ret, hist>>

\* ------------------------------------------------------------- Read

\* Read returned: its NodeRequest is abandoned.  Nothing reads the fields of
\* an abandoned request any more, so they are not kept.
Abandon(reqs, id) == [reqs EXCEPT ![id] = NewNodeRequest(0)]

\* A Read is polling request id.
Polled(id) == id # 0 /\ rd.nodeRequest = id

\* A faulty Allocated: the object of the first request is taken again.
AllocatedFirst(reqs) == 1

\* &NodeRequest{...}: a new object, the next one of requests.
Allocated(reqs) == Len(reqs) + 1

\* Read(p) is called: the NodeRequest is built from lr.offset.  (len(p) is
\* first used by the copy: it is drawn in ReadReturn.)
ReadCall ==
    /\ w.reader
    /\ rd.pc = "idle"
    /\ Len(requests) < MaxReads
    /\ requests' = Append(requests, NewNodeRequest(lr.offset))
    /\ rd' = [IdleFrame EXCEPT !.pc = "send", !.nodeRequest = Allocated(requests)]
    /\ ret' = NoReturn
    /\ hist' = [hist EXCEPT !.prev = hist.cur, !.cur = lr.offset]
    /\ UNCHANGED <<lr, ctxDone, requestChannel, disp, w>>

\* The channel send can complete: the buffer has a free slot (a send on a
\* nil channel never completes).
CanSend ==
    /\ w.reader
    /\ w.args.requestChannel # "nil"
    /\ Len(requestChannel) < ChanCap

\* lr.requestChannel <- nodeRequest
ReadSend ==
    /\ rd.pc = "send"
    /\ CanSend
    /\ requestChannel' = Append(requestChannel, rd.nodeRequest)
    /\ rd' = [rd EXCEPT !.pc = "select"]
    /\ hist' = [hist EXCEPT !.prev = 0 - 1]
    /\ UNCHANGED <<lr, ctxDone, requests, disp, ret, w>>

\* select { case <-lr.ctx.Done(): return 0, interrupted; default: }
ReadSelect ==
    /\ rd.pc = "select"
    /\ IF ctxDone
       THEN /\ rd' = IdleFrame
            /\ ret' = Return("Read", 0, 0, 0, 0, "interrupted", ErrInterrupted, <<>>)
            /\ requests' = Abandon(requests, rd.nodeRequest)
       ELSE /\ rd' = [rd EXCEPT !.pc = "parse"]
            /\ UNCHANGED <<ret, requests>>
    /\ UNCHANGED <<lr, ctxDone, requestChannel, disp, hist, w>>

\* clear, _, total, part, errStr = parseLogPart(nodeRequest, lr.offset);
\* clear ends the loop (nodeRequest = nil), otherwise Read goes to sleep.
ReadParse ==
    /\ rd.pc = "parse"
    /\ \E r \in {parseLogPart(requests[rd.nodeRequest], lr.offset)} :
          rd' = [rd EXCEPT !.pc = IF r.clear THEN "exit" ELSE "sleep",
                           !.clear = r.clear, !.total = r.total,
                           !.part = r.part, !.errStr = r.err,
                           !.afterErr = (r.clear /\ rd.errStr # <<>>)]
    /\ UNCHANGED <<lr, ctxDone, requestChannel, requests, disp, ret, hist, w>>

\* time.Sleep(100 * time.Millisecond)
ReadSleep ==
    /\ rd.pc = "sleep"
    /\ rd' = [rd EXCEPT !.pc = "select"]
    /\ UNCHANGED <<lr, ctxDone, requestChannel, requests, disp, ret, hist, w>>

\* A faulty CopiedPart: the request is decoded once more for the copy.
CopiedPartLive == parseLogPart(requests[rd.nodeRequest], lr.offset).part

\* copy(p, part): part is the slice the last parseLogPart of the loop
\* returned.  It is a slice of the response of that attempt; an attempt of the
\* dispatcher stores a new response and leaves the bytes of the old one alone.
CopiedPart == rd.part

\* After the loop: the error, or the copy into p (len(p) = L) and the new
\* offset.
ReadReturn(L) ==
    /\ rd.pc = "exit"
    /\ LET f == ReadFinish(lr, L, rd.total, CopiedPart, rd.errStr)
       IN /\ lr' = f.lr
          /\ ret' = Return("Read", L, 0, 0, f.n, f.kind, f.msg, f.data)
          /\ hist' = [hist EXCEPT !.delivered = IF hist.noSeek THEN @ \o f.data ELSE @]
    /\ rd' = IdleFrame
    /\ requests' = Abandon(requests, rd.nodeRequest)
    /\ UNCHANGED <<ctxDone, requestChannel, disp, w>>

\* ------------------------------------------------------------- Seek

\* The offsets Seek is called with: the two ends of int64 and small steps
\* around 0.
SeekOffsets == {0 - (Mod \div 2), 0 - 2, 0 - 1, 0, 1, 2, (Mod \div 2) - 1}

Whences == {SeekStart, SeekCurrent, SeekEnd, 3}

Seek(offset, whence) ==
    /\ w.reader
    /\ rd.pc = "idle"
    /\ lr' = [lr EXCEPT !.offset = SeekOffset(lr, offset, whence)]
    /\ ret' = Return("Seek", 0, offset, whence, SeekReturn(lr'.offset), "nil", <<>>, <<>>)
    /\ hist' = [prev |-> 0 - 1, cur |-> 0 - 1, noSeek |-> FALSE, delivered |-> <<>>]
    /\ UNCHANGED <<ctxDone, requestChannel, requests, rd, disp, w>>

\* The session's context is cancelled.
Cancel ==
    /\ ~ctxDone
    /\ ctxDone' = TRUE
    /\ UNCHANGED <<lr, requestChannel, requests, rd, disp, ret, hist, w>>

\* --------------------------------------------------------- dispatcher

\* SUCCESS: <from>-<to>/<total>\n<payload>, as the node writes it.
ChunkResponse(from, to, total, payload) ==
    SuccessColon \o Itoa(from) \o <<"-">> \o Itoa(to) \o <<"/">> \o Itoa(total)
        \o <<NL>> \o payload

\* The log file the node holds.
File == <<"a", NL, "b">>

\* The bytes [o, o + n) of the file, cut at its end.
FileBytes(o, n) == SubSeq(File, o + 1, Min(o + n, Len(File)))

\* The node's answer to a read at offset o with n bytes of the file.
FileChunk(o, n) ==
    ChunkResponse(o, o + Len(FileBytes(o, n)), Len(File), FileBytes(o, n))

\* What the node may answer to a read at offset o: a chunk of the file from o
\* (empty or not, ending the file or not), a chunk from another offset, and
\* malformed text.
NodeResponses(o) ==
    {FileChunk(o, n) : n \in 0..MaxChunk}
    \cup {ChunkResponse((o + 1) % Mod, (o + 1) % Mod, Len(File), <<>>)}
    \cup {<<"S", "U", "C", "C", "E", "S", "S">>, <<"S", "U", "C", "C", "E", "S", "S", NL, "a">>}

NodeErrors == {<<"connection refused">>}

\* The retries counter after one more retry: the retries that lead from 0 to
\* the window around the ceiling are taken together (Read, which sleeps
\* between two polls, need not see any of them), and so are the counts from
\* LastTracked on (the code only tests retries >= 16).
FirstTracked == RetryCeiling - RetryWindow

LastTracked == RetryCeiling + RetryWindow - 1

NextRetries(retries) ==
    IF retries < FirstTracked THEN FirstTracked ELSE Min(retries + 1, LastTracked)

\* The dispatcher takes the next request out of the channel.
DispatcherReceive ==
    /\ disp.cur = 0
    /\ requestChannel # <<>>
    /\ disp' = [cur |-> Head(requestChannel), first |-> TRUE]
    /\ requestChannel' = Tail(requestChannel)
    /\ UNCHANGED <<lr, ctxDone, requests, rd, ret, hist, w>>

\* The outcome of one attempt is written under the request's lock.  A retry
\* increments retries; an attempt may overwrite an error in place.  (The
\* attempts on an abandoned request are not tracked: see DispatcherDone.)
DispatcherServe(response, err) ==
    /\ Polled(disp.cur)
    /\ LET q == requests[disp.cur]
       IN /\ ~q.served \/ q.err # <<>>
          /\ requests' = [requests EXCEPT ![disp.cur] =
                 [q EXCEPT !.served = TRUE, !.response = response, !.err = err,
                           !.retries = IF disp.first THEN q.retries
                                       ELSE NextRetries(q.retries)]]
    /\ disp' = [disp EXCEPT !.first = FALSE]
    /\ UNCHANGED <<lr, ctxDone, requestChannel, rd, ret, hist, w>>

\* The node answered: its text is the response, with no error.
DispatcherAnswer ==
    /\ disp.cur # 0
    /\ \E response \in NodeResponses(requests[disp.cur].url) :
           DispatcherServe(response, <<>>)

\* The remote call failed: the error text, and as response nothing or what
\* the node sent all the same (a chunk of the file).
DispatcherFail ==
    /\ disp.cur # 0
    /\ \E err \in NodeErrors,
          response \in {<<>>, FileChunk(requests[disp.cur].url, 1)} :
           DispatcherServe(response, err)

\* The dispatcher starts a new attempt on the same request: served is reset.
DispatcherReset ==
    /\ Polled(disp.cur)
    /\ requests[disp.cur].served
    /\ requests' = [requests EXCEPT ![disp.cur].served = FALSE]
    /\ UNCHANGED <<lr, ctxDone, requestChannel, rd, disp, ret, hist, w>>

\* The dispatcher is done with an abandoned request (served or given up,
\* after any number of attempts) and goes back to its receive.  While a Read
\* polls a request the channel holds no other request that is polled, so
\* leaving a polled request earlier changes nothing a Read sees.
DispatcherDone ==
    /\ disp.cur # 0
    /\ ~Polled(disp.cur)
    /\ disp' = [cur |-> 0, first |-> TRUE]
    /\ UNCHANGED <<lr, ctxDone, requestChannel, requests, rd, ret, hist, w>>

\* ------------------------------------------------------- specification

Next ==
    \/ ReadCall
    \/ ReadSend
    \/ ReadSelect
    \/ ReadParse
    \/ ReadSleep
    \/ \E L \in 0..MaxBuf : ReadReturn(L)
    \/ \E offset \in SeekOffsets, whence \in Whences : Seek(offset, whence)
    \/ Cancel
    \/ \E success \in BOOLEAN, result \in Pending(ListResults) :
           processLogList(success, result)
    \/ \E success \in BOOLEAN, result \in Pending(SnippetResults) :
           processLogPart(success, result)
    \/ \E size \in Pending({0, MaxSize}), channel \in {"nil", "chan"} :
           transmitLogFile(size, channel)
    \/ DispatcherReceive
    \/ DispatcherAnswer
    \/ DispatcherFail
    \/ DispatcherReset
    \/ DispatcherDone

Spec == Init /\ [][Next]_vars

\* The scheduling the code has: a running Read takes its next step; the
\* dispatcher receives what is in the channel, brings to an end every attempt
\* it has started on a request (the first one, and one it has reset the
\* request for) and leaves an abandoned request.  Whether it starts another
\* attempt on a request that is served with an error is its own choice.
DispatcherAttemptEnds ==
    /\ disp.cur # 0
    /\ ~requests[disp.cur].served
    /\ (DispatcherAnswer \/ DispatcherFail)

FairSpec ==
    /\ Spec
    /\ WF_vars(ReadSend)
    /\ WF_vars(ReadSelect)
    /\ WF_vars(ReadParse)
    /\ WF_vars(ReadSleep)
    /\ WF_vars(\E L \in 0..MaxBuf : ReadReturn(L))
    /\ WF_vars(DispatcherReceive)
    /\ WF_vars(DispatcherAttemptEnds)
    /\ WF_vars(DispatcherDone)

\* ---------------------------------------------------------------- claims

\* The request the running Read polls.
CurReq == requests[rd.nodeRequest]

\* The Read in progress takes a step.
ReadMoves == rd.pc # "idle" /\ rd' # rd

\* The Read in progress returns.
ReadReturns == rd.pc # "idle" /\ rd'.pc = "idle"

\* A Read is called.
ReadIsCalled == rd.pc = "idle" /\ rd'.pc = "send"

\* A Seek runs.
SeekRuns ==
    /\ rd.pc = "idle" /\ rd'.pc = "idle"
    /\ ret'.op = "Seek"
    /\ <<lr, ret, hist>>' # <<lr, ret, hist>>

\* q is served with no error text and its response is
\* SUCCESS: o-<to>/<total>\n<payload> with numbers of the unsigned type.
WellFormedFor(q, o) ==
    /\ q.served
    /\ q.err = <<>>
    /\ \E to \in 0..(Mod - 1) :
           /\ HasPrefix(q.response,
                        SuccessColon \o Itoa(o) \o <<"-">> \o Itoa(to) \o <<"/">>)
           /\ \E total \in 0..(Mod - 1) :
                  HasPrefix(q.response, ChunkResponse(o, to, total, <<>>))

\* q is served with no error text and its response reports a from other
\* than o.
MismatchedFor(q, o) ==
    /\ q.served
    /\ q.err = <<>>
    /\ \E f \in (0..(Mod - 1)) \ {o} :
           HasPrefix(q.response, SuccessColon \o Itoa(f) \o <<"-">>)

\* C1: every Read that is called eventually returns, whatever the dispatcher
\* does within its contract and also when the context is never cancelled.
C1_ReadReturns == (rd.pc # "idle") ~> (rd.pc = "idle")

\* C2: a Read called when the context is already cancelled waits on nothing:
\* its channel send can complete at once, and it returns the cancellation
\* error without a decode attempt or a sleep.
C2_CancelledReadDoesNotWait ==
    [][/\ (ReadIsCalled /\ ctxDone) => CanSend'
       /\ (ReadMoves /\ ctxDone /\ rd.pc = "select") =>
              (rd'.pc = "idle" /\ ret'.kind = "interrupted" /\ ret'.n = 0)]_vars

\* C3: once the context is cancelled, every Read that returns returns the
\* cancellation error, never bytes and never a decode or remote error, and no
\* Read is held at the channel send.
C3_CancelledReadReturnsInterrupted ==
    [][/\ (ReadReturns /\ ctxDone) => ret'.kind = "interrupted"
       /\ (ctxDone /\ rd.pc = "send") => CanSend]_vars

\* C4: Read returns a non-cancellation error only from a snapshot with
\* retries >= 16; a served snapshot with an error or a malformed response and
\* retries < 16 makes Read sleep and poll the same request again.
C4_ErrorOnlyAtCeiling ==
    [][/\ (rd.pc = "parse" /\ rd'.pc = "exit" /\ rd'.errStr # <<>>) =>
              CurReq.retries >= RetryCeiling
       /\ (ReadMoves /\ rd.pc = "parse" /\ CurReq.served
              /\ ~WellFormedFor(CurReq, lr.offset) /\ CurReq.retries < RetryCeiling) =>
              (rd'.pc = "sleep" /\ rd'.nodeRequest = rd.nodeRequest /\ requests' = requests)
       /\ (ReadReturns /\ ret'.kind = "error") =>
              (rd.pc = "exit" /\ rd.errStr # <<>> /\ ret'.msg = rd.errStr)]_vars

\* C4 witness: a Read has returned a decode or remote error.
C4_Witness == ret.op = "Read" /\ ret.kind = "error"

\* C5: a served snapshot with no error text and a well-formed first line whose
\* from is the requested offset ends the poll loop at any retries and after
\* any earlier error: Read returns its bytes and no error.
C5_SuccessIsTerminal ==
    [][/\ (ReadMoves /\ rd.pc = "parse" /\ WellFormedFor(CurReq, lr.offset)) =>
              /\ rd'.pc = "exit"
              /\ rd'.errStr = <<>>
              /\ \E to \in 0..(Mod - 1) :
                     CurReq.response = ChunkResponse(lr.offset, to, rd'.total, rd'.part)
       /\ (ReadReturns /\ rd.pc = "exit" /\ rd.errStr = <<>>) =>
              /\ ret'.kind \in {"nil", "EOF"}
              /\ ret'.msg = <<>>
              /\ ret'.data = SubSeq(rd.part, 1, ret'.n)]_vars

\* C5 witness: the poll loop has ended on a well-formed chunk, below the
\* ceiling, right after an iteration that decoded an error.
C5_Witness ==
    /\ rd.pc = "exit"
    /\ rd.errStr = <<>>
    /\ rd.afterErr
    /\ WellFormedFor(CurReq, lr.offset)
    /\ CurReq.retries < RetryCeiling

\* C6: a chunk whose from differs from the requested offset is decoded as an
\* error with no payload; a Read that returns an error or the cancellation
\* returns zero bytes, and the stream is as it was when Read was called.
C6_MismatchNotDelivered ==
    [][/\ (ReadMoves /\ rd.pc = "parse" /\ MismatchedFor(CurReq, lr.offset)) =>
              (rd'.errStr # <<>> /\ rd'.part = <<>>)
       /\ (ReadMoves /\ rd.pc = "exit" /\ rd.errStr # <<>>) =>
              (rd'.pc = "idle" /\ ret'.kind = "error")
       /\ (ReadReturns /\ ret'.kind \in {"error", "interrupted"}) =>
              (ret'.n = 0 /\ ret'.data = <<>> /\ lr' = lr)
       /\ (rd.pc \notin {"idle", "exit"}) => lr' = lr]_vars

\* C6 witness: a Read has returned the offset mismatch, with zero bytes.
C6_Witness ==
    /\ ret.op = "Read"
    /\ ret.kind = "error"
    /\ ret.msg[1] = "Unexpected from "
    /\ ret.n = 0

\* C7: a successful Read into a buffer of length L, of a payload of length P
\* with total T, returns min(L, P) and the first min(L, P) bytes, advances
\* the offset by that count, sets the total to T, and signals end-of-stream
\* exactly when the new offset is T.
C7_SuccessfulRead ==
    [][(ReadReturns /\ rd.pc = "exit" /\ rd.errStr = <<>>) =>
          /\ ret'.n = Min(ret'.L, Len(rd.part))
          /\ ret'.data = SubSeq(rd.part, 1, ret'.n)
          /\ lr'.offset = lr.offset + ret'.n
          /\ lr'.total = rd.total
          /\ ret'.kind \in {"nil", "EOF"}
          /\ (ret'.kind = "EOF") <=> (lr'.offset = rd.total)]_vars

\* C7 witness: a Read into a buffer longer than the payload has returned the
\* payload together with end-of-stream.
C7_Witness ==
    /\ ret.op = "Read"
    /\ ret.kind = "EOF"
    /\ ret.n > 0
    /\ ret.L > ret.n
    /\ lr.offset = lr.total

\* C8 as stated: Seek(off, End) on a stream as constructed, before any Read,
\* sets the offset to 0 and returns 0; right after a successful Read that
\* reported the total T it sets the offset to T + off and returns it.
C8_SeekEndAsStated ==
    [][(SeekRuns /\ ret'.whence = SeekEnd) =>
          /\ (requests = <<>>) => (lr'.offset = 0 /\ ret'.n = 0)
          /\ (ret.op = "Read" /\ ret.kind \in {"nil", "EOF"}) =>
                 (lr'.offset = lr.total + ret'.offset /\ ret'.n = lr.total + ret'.offset)]_vars

\* C8 amended: Seek(off, End) sets the offset to 0 and returns 0 when total
\* is 0; when total is T > 0 (the size the stream was constructed with, or the
\* total of a successful Read) the offset is T + off modulo 2^64 and the
\* return is that value as int64, which is T + off when 0 <= T + off < 2^63.
C8_SeekEnd ==
    [][(SeekRuns /\ ret'.whence = SeekEnd) =>
          IF lr.total = 0
          THEN lr'.offset = 0 /\ ret'.n = 0
          ELSE /\ lr'.offset = (lr.total + ret'.offset) % Mod
               /\ ret'.n \in Int64Range
               /\ (ret'.n - (lr.total + ret'.offset)) % Mod = 0
               /\ (lr.total + ret'.offset \in 0..((Mod \div 2) - 1)) =>
                      (lr'.offset = lr.total + ret'.offset /\ ret'.n = lr'.offset)]_vars

\* C8 witness: on the stream as constructed with a known size, before any
\* Read, a Seek from the end with a negative offset has landed inside the
\* file.
C8_Witness ==
    /\ requests = <<>>
    /\ ret.op = "Seek"
    /\ ret.whence = SeekEnd
    /\ ret.offset < 0
    /\ lr.offset = lr.total + ret.offset
    /\ lr.offset > 0
    /\ ret.n = lr.offset

\* C9: Seek, for every whence and offset, submits nothing, changes neither total nor a request,
\* returns a nil error, and returns the resulting offset, which is the
\* argument (absolute) or the old offset plus the argument (relative).
C9_SeekReturnsOffset ==
    [][SeekRuns =>
          /\ requests' = requests /\ requestChannel' = requestChannel
          /\ lr'.total = lr.total
          /\ ret'.kind = "nil"
          /\ ret'.n = lr'.offset
          /\ (ret'.whence = SeekStart) => (lr'.offset = ret'.offset)
          /\ (ret'.whence = SeekCurrent) => (lr'.offset = lr.offset + ret'.offset)]_vars

\* C10 as stated: with no Seek between two Reads, the offset of the second
\* Read's request is greater than the offset of the first Read's request.
C10_StrictlyIncreasing == (hist.prev # 0 - 1) => (hist.cur > hist.prev)

\* C10 amended: with no Seek between two Reads, the offset of the second
\* Read's request is the offset of the first Read's request plus the number of
\* bytes the first Read delivered (as uint64): the same when the first Read
\* failed, was cancelled or delivered nothing, and greater when it delivered
\* at least one byte of a chunk whose payload is the range its first line
\* reports.
C10_NonDecreasing ==
    [][(ReadIsCalled /\ hist.cur # 0 - 1) =>
          /\ ret.op = "Read"
          /\ hist'.prev = hist.cur
          /\ hist'.cur = requests'[rd'.nodeRequest].url
          /\ hist'.cur = (hist'.prev + ret.n) % Mod
          /\ hist'.cur >= hist'.prev
          /\ (ret.kind \in {"error", "interrupted"}) => (hist'.cur = hist'.prev)
          /\ (hist'.cur > hist'.prev) <=> (ret.n > 0)]_vars

\* C10 witness: a second Read, called with no Seek and no cancellation after
\* a first Read, has built its request for the same offset as the first.
C10_Witness ==
    /\ rd.pc = "send"
    /\ ~ctxDone
    /\ hist.prev # 0 - 1
    /\ hist.cur = hist.prev

\* C11: when the snapshot is served and its response is
\* SUCCESS: <from>-<to>/<total>\n<payload> with from the requested offset and
\* to - from the length of the payload, the decoder returns, with no error
\* text, success with to, total and exactly the bytes after the first newline
\* (newlines of the payload included), and Read leaves the loop with them;
\* with the same response and an error text it returns that text and no bytes.
C11_ChunkDecoded ==
    [][(ReadMoves /\ rd.pc = "parse" /\ CurReq.served) =>
          \A to \in lr.offset..(Mod - 1) :
              HasPrefix(CurReq.response,
                        SuccessColon \o Itoa(lr.offset) \o <<"-">> \o Itoa(to) \o <<"/">>) =>
              \A total \in 0..(Mod - 1), p \in {Len(CurReq.response) - (to - lr.offset)} :
                  (p >= 0 /\ SubSeq(CurReq.response, 1, p)
                                 = ChunkResponse(lr.offset, to, total, <<>>)) =>
                  IF CurReq.err = <<>>
                  THEN /\ parseLogPart(CurReq, lr.offset)
                              = ParseResult(TRUE, to, total,
                                            SubSeq(CurReq.response, p + 1,
                                                   Len(CurReq.response)), <<>>)
                       /\ rd'.pc = "exit"
                       /\ rd'.errStr = <<>>
                       /\ rd'.total = total
                       /\ rd'.part = SubSeq(CurReq.response, p + 1, Len(CurReq.response))
                  ELSE /\ parseLogPart(CurReq, lr.offset).err = CurReq.err
                       /\ parseLogPart(CurReq, lr.offset).part = <<>>
                       /\ rd'.errStr = CurReq.err
                       /\ rd'.part = <<>>]_vars

\* C11 witness: the loop has ended on a chunk whose payload holds a newline.
C11_Witness ==
    /\ rd.pc = "exit"
    /\ rd.errStr = <<>>
    /\ \E i \in 1..Len(rd.part) : rd.part[i] = NL

\* The list handler, the snippet handler, the file handler runs.
ListDecoded == w.handler = "none" /\ w'.handler = "list"

SnippetDecoded == w.handler = "none" /\ w'.handler = "part"

FileHandled == w.handler = "none" /\ w'.handler = "file"

\* The first line of a text.
FirstLineOf(text) == Split(text, <<NL>>)[1]

\* C12: in each of the three decoders, a failure signalled by the caller
\* makes the raw text the error message and nothing is decoded; a success
\* whose first line does not carry the marker is a decode error (not
\* successful, an error text) with no entries, lines or bytes decoded.
C12_SharedRule ==
    [][/\ ListDecoded =>
              /\ ~w'.args.success =>
                     /\ ~w'.out.Success
                     /\ w'.out.Error = w'.args.result
                     /\ w'.out.List = <<>>
              /\ (w'.args.success /\ ~HasPrefix(FirstLineOf(w'.args.result), successLine)) =>
                     /\ ~w'.out.Success
                     /\ w'.out.Error # <<>>
                     /\ w'.out.List = <<>>
       /\ SnippetDecoded =>
              /\ ~w'.args.success =>
                     /\ ~w'.out.Success
                     /\ w'.out.Error = w'.args.result
                     /\ w'.out.Lines = <<>>
              /\ (w'.args.success /\ ~HasPrefix(FirstLineOf(w'.args.result), successLine)) =>
                     /\ ~w'.out.Success
                     /\ w'.out.Error # <<>>
                     /\ w'.out.Lines = <<>>
       /\ (ReadMoves /\ rd.pc = "parse" /\ CurReq.served) =>
              /\ CurReq.err # <<>> =>
                     (rd'.errStr = CurReq.err /\ rd'.part = <<>>)
              /\ (CurReq.err = <<>> /\ ~HasPrefix(FirstLineOf(CurReq.response), successLine)) =>
                     (rd'.errStr # <<>> /\ rd'.part = <<>>)]_vars

\* The lines of a list text after its first line.
BodyOf(text) == Tail(Split(text, <<NL>>))

\* l is a line the list decoder rejects: not blank, and not two fields of
\* which the second is an unsigned decimal number of the size type.
Offending(l) ==
    /\ l # <<>>
    /\ \/ Len(Split(l, FieldSep)) # 2
       \/ ~ParseUint(Split(l, FieldSep)[2]).ok

\* The list text is signalled successful and has the marker line and at
\* least one more line.
ListMarked(args) ==
    /\ args.success
    /\ Len(Split(args.result, <<NL>>)) >= 2
    /\ HasPrefix(FirstLineOf(args.result), successLine)

\* C13: when a list text with the marker line has an offending line, the
\* decoded list is not successful, has no entries (those of earlier good
\* lines included), and its error message contains the first offending line
\* verbatim, whichever of the two checks the line fails.
C13_WholeListRejected ==
    [][(ListDecoded /\ ListMarked(w'.args)) =>
          \A i \in 1..Len(BodyOf(w'.args.result)) :
              (/\ Offending(BodyOf(w'.args.result)[i])
               /\ \A j \in 1..(i - 1) : ~Offending(BodyOf(w'.args.result)[j])) =>
                  /\ ~w'.out.Success
                  /\ w'.out.List = <<>>
                  /\ Index(w'.out.Error, BodyOf(w'.args.result)[i]) # 0 - 1]_vars

\* The lines of a sequence of lines that are not blank.
NonBlank(lines) == SelectSeq(lines, LAMBDA l : l # <<>>)

\* C14: a list text signalled successful whose first line is the marker and
\* whose other lines (there may be none) are blank or <filename> | <size>,
\* the size a decimal number of the unsigned type, is decoded successfully
\* into one entry per line that is not blank, in the order of the lines, each
\* with the filename and the numeric size of its line.
C14_ListDecoded ==
    [][(/\ ListDecoded
        /\ w'.args.success
        /\ FirstLineOf(w'.args.result) = successLine
        /\ \A i \in 1..Len(BodyOf(w'.args.result)) :
               ~Offending(BodyOf(w'.args.result)[i])) =>
          /\ w'.out.Success
          /\ Len(w'.out.List) = Len(NonBlank(BodyOf(w'.args.result)))
          /\ \A k \in 1..Len(w'.out.List) :
                 /\ w'.out.List[k].Filename
                        = Split(NonBlank(BodyOf(w'.args.result))[k], FieldSep)[1]
                 /\ w'.out.List[k].Size
                        = DecValue(Split(NonBlank(BodyOf(w'.args.result))[k], FieldSep)[2])]_vars

\* The number of newlines of a text.
Newlines(text) == Cardinality({i \in 1..Len(text) : text[i] = NL})

\* C15: a snippet text signalled successful whose first line carries the
\* marker is decoded successfully into the lines after the first, verbatim
\* and in order, the empty ones included: put back after the first line with
\* a newline before each they give the text, there are as many of them as the
\* text has lines less one (as it has newlines), and none when the text is
\* the marker line alone.
C15_SnippetLines ==
    [][(/\ SnippetDecoded
        /\ w'.args.success
        /\ HasPrefix(w'.args.result, successLine)) =>
          /\ w'.out.Success
          /\ w'.out.Error = <<>>
          /\ \A k \in 1..Len(w'.out.Lines) : Newlines(w'.out.Lines[k]) = 0
          /\ \E first \in {SubSeq(w'.args.result, 1, n) : n \in 0..Len(w'.args.result)} :
                 /\ Newlines(first) = 0
                 /\ Join(<<first>> \o w'.out.Lines, <<NL>>) = w'.args.result
          /\ Len(w'.out.Lines) = Newlines(w'.args.result)
          /\ (w'.args.result = successLine) => (w'.out.Lines = <<>>)]_vars

\* C15 witness: a snippet has been decoded into an empty line followed by a
\* line of text.
C15_Witness ==
    /\ w.handler = "part"
    /\ w.args.success
    /\ HasPrefix(w.args.result, successLine)
    /\ Len(w.out.Lines) = 2
    /\ w.out.Lines[1] = <<>>
    /\ w.out.Lines[2] # <<>>

\* C16: when transmitLogFile is called with no request channel it writes
\* ERROR: Node is not allocated and makes no LogReader, and from then on no
\* Read or Seek runs and no request is created or put into a channel.
C16_NotAllocated ==
    [][/\ (FileHandled /\ w'.args.requestChannel = "nil") =>
              /\ w'.out = ErrNotAllocated
              /\ ~w'.reader
              /\ UNCHANGED <<lr, requestChannel, requests, rd, ret>>
       /\ (w.handler = "file" /\ w.args.requestChannel = "nil") =>
              /\ w' = w
              /\ requests' = <<>>
              /\ requestChannel' = <<>>
              /\ rd' = IdleFrame
              /\ ret' = NoReturn
              /\ UNCHANGED lr]_vars

\* C16 witness: transmitLogFile has returned after it wrote the error, and
\* the session's context has been cancelled.
C16_Witness ==
    /\ w.handler = "file"
    /\ w.args.requestChannel = "nil"
    /\ w.out = ErrNotAllocated
    /\ ctxDone

C18_OneRequestPerRead ==
    [][/\ IF ReadIsCalled
          THEN /\ Len(requests') = Len(requests) + 1
               /\ rd'.nodeRequest = Len(requests')
               /\ \A i \in 1..Len(requests) : requests'[i] = requests[i]
               /\ requestChannel' = requestChannel
               /\ \A i \in 1..Len(requestChannel) : requestChannel[i] # rd'.nodeRequest
          ELSE Len(requests') = Len(requests)
       /\ (rd.pc = "send" /\ rd'.pc # "send") =>
              /\ rd'.pc = "select"
              /\ requestChannel' = Append(requestChannel, rd.nodeRequest)
       /\ (rd.pc # "send" \/ rd'.pc = "send") =>
              \/ requestChannel' = requestChannel
              \/ requestChannel' = Tail(requestChannel)
       /\ (rd'.pc = "send") => (rd.pc \in {"idle", "send"})
       /\ (rd.pc # "idle" /\ rd'.pc # "idle") => (rd'.nodeRequest = rd.nodeRequest)
       /\ (rd.pc # "idle") => (rd.nodeRequest = Len(requests))
       /\ (ReadMoves /\ rd.pc = "parse") =>
              (rd'.errStr = parseLogPart(requests[Len(requests)], lr.offset).err)]_vars

\* C18 witness: a second Read polls its own request while the dispatcher
\* still holds the request of the first.
C18_Witness ==
    /\ rd.pc = "parse"
    /\ rd.nodeRequest = 2
    /\ disp.cur = 1
    /\ requestChannel = <<2>>

\* C19: a decode of a request that is not served reports not ready and no
\* error, whatever its retries, error text and response are: Read copies
\* nothing and returns nothing, it goes to sleep and polls again.  A Read that
\* leaves the loop with bytes or an error does it on a served request, and a
\* Read that returns from anywhere else returns the cancellation error.
C19_UnservedNotReady ==
    [][/\ (ReadMoves /\ rd.pc = "parse" /\ ~CurReq.served) =>
              /\ parseLogPart(CurReq, lr.offset) = ParseResult(FALSE, 0, 0, <<>>, <<>>)
              /\ rd'.pc = "sleep"
              /\ ~rd'.clear
              /\ rd'.errStr = <<>>
              /\ rd'.part = <<>>
              /\ UNCHANGED <<lr, ret>>
       /\ (ReadMoves /\ rd.pc = "parse" /\ rd'.pc = "exit") => CurReq.served
       /\ (ReadMoves /\ rd.pc = "sleep") => (rd'.pc = "select" /\ UNCHANGED <<lr, ret>>)
       /\ (ReadReturns /\ rd.pc # "exit") =>
              /\ rd.pc = "select"
              /\ ctxDone
              /\ ret'.kind = "interrupted"
              /\ ret'.n = 0
              /\ lr' = lr]_vars

\* C19 witness: Read sleeps after a decode that reported not ready, on a
\* request that is not served and holds an error text and retries at the
\* ceiling or beyond.
C19_Witness ==
    /\ rd.pc = "sleep"
    /\ ~rd.clear
    /\ rd.errStr = <<>>
    /\ ~CurReq.served
    /\ CurReq.err # <<>>
    /\ CurReq.retries >= RetryCeiling

\* C20: the node answers a read at offset o with a chunk of the file from o
\* (see NodeResponses: every well-formed answer for o is such a chunk).  As
\* long as no Seek has run, the bytes the Reads have delivered one after the
\* other are the bytes [0, lr.offset) of the file, with no gap and no
\* duplicate, whatever the lengths of the buffers; the offset exceeds neither
\* the total nor the length of the file; and a Read that delivers signals
\* end-of-stream exactly when it leaves the offset at the length of the
\* file.
C20_StreamIntegrity ==
    hist.noSeek =>
        /\ lr.offset <= Len(File)
        /\ lr.offset <= lr.total
        /\ hist.delivered = SubSeq(File, 1, lr.offset)
        /\ (ret.op = "Read" /\ ret.kind \in {"nil", "EOF"}) =>
               /\ lr.total = Len(File)
               /\ (ret.kind = "EOF") <=> (lr.offset = Len(File))

\* C20 witness: with no Seek, two Reads have delivered the whole file, the
\* first one into a buffer shorter than its chunk, the second one with
\* end-of-stream.
C20_Witness ==
    /\ hist.noSeek
    /\ Len(requests) = 2
    /\ ret.op = "Read"
    /\ ret.kind = "EOF"
    /\ ret.n > 0
    /\ hist.delivered = File
    /\ ret.data # File

====
